---- MODULE Spec2Model ----
(***************************************************************************)
(* Model of the YouTube keyword scraper: the SearchHandler (pagination     *)
(* accumulator and detail batcher, src/search_handler.py) and the duration *)
(* codec of DataProcessor (src/title-search-duration-filter/               *)
(* data_processor.py).                                                     *)
(***************************************************************************)
EXTENDS Integers, Sequences, FiniteSets, TLC

VARIABLES
    search_results,   \* SearchHandler.search_results
    video_details,    \* SearchHandler.video_details
    pc,               \* position of the running SearchHandler method
    last_op,          \* the method that returned last: "none", "search", "stats"
    result,           \* the list that method returned
    raised,           \* TRUE when that method ended with an exception
    ops,              \* number of methods started so far
    max_total_results, query, order, published_after, published_before,
    all_videos, next_page_token,     \* locals of search_videos_with_keywords
    video_items, i, all_details,     \* locals of fetch_video_statistics
    search_calls,     \* arguments of the client.search_videos calls of this run
    search_resps,     \* what each of these calls returned
    detail_calls,     \* arguments of the client.get_video_details calls of this run
    detail_resps,     \* what each of these calls returned
    log,              \* remote calls and delays of this run, in execution order
    duration_str,     \* argument of DataProcessor.parse_duration
    dpc,              \* "start" before the codec call, "parsed" after it
    duration_seconds, \* value parse_duration returned
    seconds,          \* argument of format_duration, is_youtube_short, get_video_type
    formatted,        \* value format_duration returned
    short,            \* value is_youtube_short returned
    category,         \* value get_video_type returned
    applied,          \* the functions called on seconds so far
    video,            \* argument of extract_video_info: a raw API item
    raw_videos,       \* argument of process_video_batch: a list of raw API items
    info,             \* the record extract_video_info returned
    xpc,              \* "start" before extract_video_info, then "returned" or "raised"
    processed,        \* the caller's current list of records
    last,             \* the last filter or sort call: arguments, input, output
    quota_usage,      \* ConfigHandler.quota_usage
    quota_last        \* the last ConfigHandler quota call: arguments and returned value

handlerVars == <<search_results, video_details, pc, last_op, result, raised, ops,
                 max_total_results, query, order, published_after, published_before,
                 all_videos, next_page_token, video_items, i, all_details,
                 search_calls, search_resps, detail_calls, detail_resps, log>>
searchLocals == <<max_total_results, query, order, published_after, published_before,
                  all_videos, next_page_token>>
statsLocals == <<video_items, i, all_details>>
codecVars == <<duration_str, dpc, duration_seconds>>
durationVars == <<seconds, formatted, short, category, applied>>
normalizerVars == <<video, info, xpc, raw_videos>>
filterVars == <<processed, last>>
quotaVars == <<quota_usage, quota_last>>
processorVars == <<durationVars, normalizerVars, filterVars, quotaVars>>
vars == <<handlerVars, codecVars, processorVars>>

-----------------------------------------------------------------------------
(* Bounds of the explored environment *)

MaxFetches == 2      \* search_videos calls one search run can make: the last one gets no continuation token
MaxOps == 2          \* SearchHandler methods called one after the other
MaxPart == 11        \* largest hour, minute or second count of a generated duration token

(* Program constants *)

MaxPageSize == 50    \* min(50, ...) in search_videos_with_keywords
BatchSize == 50      \* range(0, len(video_items), 50) and video_items[i:i + 50]

None == "<None>"     \* Python None (token, date bound, argument)

\* the argument of parse_duration: a str, held as the sequence of its characters, or None
Str(chars) == [is_none |-> FALSE, chars |-> chars]
NoneStr == [is_none |-> TRUE, chars |-> <<>>]

Min(a, b) == IF a < b THEN a ELSE b

RECURSIVE Concat(_)
Concat(seqs) == IF seqs = <<>> THEN <<>> ELSE Head(seqs) \o Concat(Tail(seqs))

-----------------------------------------------------------------------------
(* The search collaborator's answers *)

\* a search-result stub: item['id']['videoId']
Stub(p, k) == [id |-> [videoId |-> <<p, k>>]]

\* the n items of page p
PageItems(p, n) == [k \in 1..n |-> Stub(p, k)]

\* numbers of items a page can carry when max_results items were asked for
PageCounts(max_results) == {0, 30, max_results, max_results + 1} \cap Nat

\* the continuation token that leads to the page after page p
PageToken(p) == "T" \o ToString(p)

\* what the answer to call p can carry as nextPageToken: nothing, '', or a token
Tokens(p) == {None, "", PageToken(p)}

\* Python truth value of a token: None and '' are false
Truthy(token) == token \notin {None, ""}

\* the search requests the callers make: keywords, order, published_after, published_before
Requests ==
    { [keywords |-> <<"space", "science">>, order |-> "viewCount",
       published_after |-> None, published_before |-> None],
      [keywords |-> <<"nasa">>, order |-> "date",
       published_after |-> "2024-01-01T00:00:00Z",
       published_before |-> "2024-12-31T00:00:00Z"] }

TargetCounts == {-1, 0, 51, 100}

\* ' '.join(keywords)
RECURSIVE Join(_)
Join(keywords) ==
    IF keywords = <<>> THEN ""
    ELSE IF Len(keywords) = 1 THEN keywords[1]
    ELSE keywords[1] \o " " \o Join(Tail(keywords))

-----------------------------------------------------------------------------
(* SearchHandler.search_videos_with_keywords *)

\* while len(all_videos) < max_total_results
LoopCond_Mutant(videos, max) == Len(videos) <= max
LoopCond(videos, max) == Len(videos) < max

\* max_results=min(50, max_total_results - len(all_videos))
RequestedPageSize_Mutant(videos, max) == MaxPageSize
RequestedPageSize(videos, max) == Min(MaxPageSize, max - Len(videos))

\* all_videos.extend(videos)
Extend_Mutant(list, items) == items \o list
Extend(list, items) == list \o items

\* the keyword arguments of self.client.search_videos(...)
SearchCall ==
    [query |-> query,
     max_results |-> RequestedPageSize(all_videos, max_total_results),
     order |-> order,
     page_token |-> next_page_token,
     published_after |-> published_after,
     published_before |-> published_before]

\* no call of the duration functions, of extract_video_info or of a filter yet
DurationIdle ==
    /\ seconds = 0
    /\ formatted = <<>>
    /\ short = FALSE
    /\ category = ""
    /\ applied = {}

NormalizerIdle ==
    /\ video = [id |-> None]
    /\ info = [video_id |-> None]
    /\ xpc = "idle"
    /\ raw_videos = <<>>

FiltersIdle ==
    /\ processed = <<>>
    /\ last = [op |-> "none"]

\* reset_quota(): nothing used, no operation recorded (the time stamps of the dict
\* and of its entries are left out)
QuotaIdle ==
    /\ quota_usage = [used |-> 0, operations |-> <<>>]
    /\ quota_last = [op |-> "none"]

ProcessorIdle == DurationIdle /\ NormalizerIdle /\ FiltersIdle /\ QuotaIdle

Init ==
    /\ search_results = <<>>
    /\ video_details = <<>>
    /\ pc = "idle"
    /\ last_op = "none"
    /\ result = <<>>
    /\ raised = FALSE
    /\ ops = 0
    /\ max_total_results = 0
    /\ query = ""
    /\ order = "viewCount"
    /\ published_after = None
    /\ published_before = None
    /\ all_videos = <<>>
    /\ next_page_token = None
    /\ video_items = <<>>
    /\ i = 0
    /\ all_details = <<>>
    /\ search_calls = <<>>
    /\ search_resps = <<>>
    /\ detail_calls = <<>>
    /\ detail_resps = <<>>
    /\ log = <<>>
    /\ duration_str = NoneStr
    /\ dpc = "idle"
    /\ duration_seconds = 0
    /\ ProcessorIdle

\* lines 42-46: the method is entered; the locals and the recorded calls of the
\* method that ran before are gone
StartSearch ==
    /\ pc = "idle"
    /\ ops < MaxOps
    /\ \E req \in Requests, target \in TargetCounts :
        /\ query' = Join(req.keywords)
        /\ order' = req.order
        /\ published_after' = req.published_after
        /\ published_before' = req.published_before
        /\ max_total_results' = target
    /\ all_videos' = <<>>
    /\ next_page_token' = None
    /\ pc' = "search_loop"
    /\ ops' = ops + 1
    /\ search_calls' = <<>>
    /\ search_resps' = <<>>
    /\ detail_calls' = <<>>
    /\ detail_resps' = <<>>
    /\ log' = <<>>
    /\ video_items' = <<>>
    /\ i' = 0
    /\ all_details' = <<>>
    /\ UNCHANGED <<search_results, video_details, last_op, result, raised, codecVars, processorVars>>

\* lines 77-78, with the videos accumulated when the loop is left
SearchReturn(videos) ==
    /\ search_results' = videos
    /\ result' = videos
    /\ raised' = FALSE
    /\ last_op' = "search"
    /\ pc' = "idle"

\* line 48: the loop condition is false
SearchLoopExit ==
    /\ pc = "search_loop"
    /\ ~LoopCond(all_videos, max_total_results)
    /\ SearchReturn(all_videos)
    /\ UNCHANGED <<video_details, ops, searchLocals, statsLocals,
                   search_calls, search_resps, detail_calls, detail_resps, log, codecVars, processorVars>>

\* lines 48-71: one iteration whose search_videos call returns a page
SearchFetchPage ==
    /\ pc = "search_loop"
    /\ LoopCond(all_videos, max_total_results)
    /\ \E n \in PageCounts(RequestedPageSize(all_videos, max_total_results)),
          token \in Tokens(Len(search_calls) + 1) :
        /\ Len(search_calls) + 1 >= MaxFetches => ~Truthy(token)
        /\ LET videos == PageItems(Len(search_calls) + 1, n)
               extended == Extend(all_videos, videos)
           IN /\ search_calls' = Append(search_calls, SearchCall)
              /\ search_resps' = Append(search_resps,
                                        [ok |-> TRUE, items |-> videos, nextPageToken |-> token])
              /\ log' = Append(log, "search")
              /\ all_videos' = extended
              /\ next_page_token' = token
              /\ IF ~Truthy(token)
                 THEN SearchReturn(extended)
                 ELSE /\ pc' = "search_sleep"
                      /\ UNCHANGED <<search_results, result, raised, last_op>>
    /\ UNCHANGED <<video_details, ops, max_total_results, query, order, published_after,
                   published_before, statsLocals, detail_calls, detail_resps, codecVars, processorVars>>

\* lines 48-58, 73-75: one iteration whose search_videos call raises
SearchFetchFail ==
    /\ pc = "search_loop"
    /\ LoopCond(all_videos, max_total_results)
    /\ search_calls' = Append(search_calls, SearchCall)
    /\ search_resps' = Append(search_resps, [ok |-> FALSE, items |-> <<>>, nextPageToken |-> None])
    /\ log' = Append(log, "search")
    /\ SearchReturn(all_videos)
    /\ UNCHANGED <<video_details, ops, searchLocals, statsLocals,
                   detail_calls, detail_resps, codecVars, processorVars>>

\* line 71: time.sleep(0.5), then back to the loop condition
SearchSleep_Mutant ==
    /\ pc = "search_sleep"
    /\ pc' = "search_loop"
    /\ UNCHANGED <<search_results, video_details, last_op, result, raised, ops,
                   searchLocals, statsLocals, search_calls, search_resps,
                   detail_calls, detail_resps, log, codecVars, processorVars>>
SearchSleep ==
    /\ pc = "search_sleep"
    /\ log' = Append(log, "sleep")
    /\ pc' = "search_loop"
    /\ UNCHANGED <<search_results, video_details, last_op, result, raised, ops,
                   searchLocals, statsLocals, search_calls, search_resps,
                   detail_calls, detail_resps, codecVars, processorVars>>

-----------------------------------------------------------------------------
(* SearchHandler.fetch_video_statistics *)

\* the arguments the callers pass: None (use the stored results) or a list of stubs
StatsArguments ==
    { [is_none |-> TRUE, items |-> <<>>],
      [is_none |-> FALSE, items |-> PageItems(0, 120)] }

\* video_items[i:i + 50]
Batch_Mutant(items, start) == SubSeq(items, start + 1, Min(start + BatchSize + 1, Len(items)))
Batch(items, start) == SubSeq(items, start + 1, Min(start + BatchSize, Len(items)))

\* [item['id']['videoId'] for item in batch]
VideoIds(batch) == [k \in DOMAIN batch |-> batch[k].id.videoId]

\* a detail item of the videos().list answer
Detail(video_id) == [id |-> video_id, kind |-> "youtube#video"]

\* the item lists get_video_details can answer with: the first video of the batch
\* is no longer available and has no item, every other video has one
DetailAnswers(video_ids) ==
    { [k \in DOMAIN Tail(video_ids) |-> Detail(Tail(video_ids)[k])] }

\* lines 90-96: the method is entered; the locals and the recorded calls of the
\* method that ran before are gone
StartStats ==
    /\ pc = "idle"
    /\ ops < MaxOps
    /\ ops' = ops + 1
    /\ search_calls' = <<>>
    /\ search_resps' = <<>>
    /\ detail_calls' = <<>>
    /\ detail_resps' = <<>>
    /\ log' = <<>>
    /\ \E arg \in StatsArguments :
        LET items == IF arg.is_none THEN search_results ELSE arg.items
        IN /\ video_items' = items
           /\ i' = 0
           /\ all_details' = <<>>
           /\ IF items = <<>>
              THEN /\ result' = <<>>
                   /\ raised' = FALSE
                   /\ last_op' = "stats"
                   /\ pc' = "idle"
              ELSE /\ pc' = "stats_loop"
                   /\ UNCHANGED <<result, raised, last_op>>
    /\ max_total_results' = 0
    /\ query' = ""
    /\ order' = "viewCount"
    /\ published_after' = None
    /\ published_before' = None
    /\ all_videos' = <<>>
    /\ next_page_token' = None
    /\ UNCHANGED <<search_results, video_details, codecVars, processorVars>>

\* lines 99-111: one batch whose get_video_details call returns
StatsFetchBatch ==
    /\ pc = "stats_loop"
    /\ i < Len(video_items)
    /\ LET video_ids == VideoIds(Batch(video_items, i))
       IN /\ detail_calls' = Append(detail_calls, video_ids)
          /\ \E details \in DetailAnswers(video_ids) :
                /\ detail_resps' = Append(detail_resps, [ok |-> TRUE, items |-> details])
                /\ all_details' = Extend(all_details, details)
    /\ log' = Append(log, "details")
    /\ pc' = "stats_sleep"
    /\ UNCHANGED <<search_results, video_details, last_op, result, raised, ops,
                   searchLocals, video_items, i, search_calls, search_resps, codecVars, processorVars>>

\* what the except clause of lines 113-114 leaves to run next: the next batch
AfterBatchFailure_Mutant(start) == Len(video_items)
AfterBatchFailure(start) == start + BatchSize

\* lines 99-104, 113-114: one batch whose get_video_details call raises
StatsFetchFail ==
    /\ pc = "stats_loop"
    /\ i < Len(video_items)
    /\ detail_calls' = Append(detail_calls, VideoIds(Batch(video_items, i)))
    /\ detail_resps' = Append(detail_resps, [ok |-> FALSE, items |-> <<>>])
    /\ log' = Append(log, "details")
    /\ i' = AfterBatchFailure(i)
    /\ UNCHANGED <<search_results, video_details, pc, last_op, result, raised, ops,
                   searchLocals, video_items, all_details, search_calls, search_resps,
                   codecVars, processorVars>>

\* line 111: time.sleep(0.5), then the next value of range(0, len(video_items), 50)
StatsSleep ==
    /\ pc = "stats_sleep"
    /\ log' = Append(log, "sleep")
    /\ i' = i + BatchSize
    /\ pc' = "stats_loop"
    /\ UNCHANGED <<search_results, video_details, last_op, result, raised, ops,
                   searchLocals, video_items, all_details, search_calls, search_resps,
                   detail_calls, detail_resps, codecVars, processorVars>>

\* lines 116-117: the range is exhausted
StatsReturn ==
    /\ pc = "stats_loop"
    /\ i >= Len(video_items)
    /\ video_details' = all_details
    /\ result' = all_details
    /\ raised' = FALSE
    /\ last_op' = "stats"
    /\ pc' = "idle"
    /\ UNCHANGED <<search_results, ops, searchLocals, statsLocals,
                   search_calls, search_resps, detail_calls, detail_resps, log, codecVars, processorVars>>

Next ==
    \/ StartSearch
    \/ SearchLoopExit
    \/ SearchFetchPage
    \/ SearchFetchFail
    \/ SearchSleep
    \/ StartStats
    \/ StatsFetchBatch
    \/ StatsFetchFail
    \/ StatsSleep
    \/ StatsReturn

Spec == Init /\ [][Next]_vars

-----------------------------------------------------------------------------
(* Properties of SearchHandler.search_videos_with_keywords *)

\* the items of the first k answers of this run, in call order
RECURSIVE ItemsOfPages(_, _)
ItemsOfPages(resps, k) ==
    IF k = 0 THEN <<>>
    ELSE ItemsOfPages(resps, k - 1) \o (IF resps[k].ok THEN resps[k].items ELSE <<>>)

SearchReturned == pc = "idle" /\ last_op = "search"

\* C1: every page fetch asks for min(50, target_count - items accumulated so far)
\* items and carries the continuation token the preceding fetch returned (none on
\* the first fetch); query, order and date bounds are the same on every fetch.
C1_PageRequests ==
    \A k \in 1..Len(search_calls) :
        LET accumulated == Len(ItemsOfPages(search_resps, k - 1))
            remaining == max_total_results - accumulated
        IN /\ search_calls[k].max_results = IF remaining < 50 THEN remaining ELSE 50
           /\ search_calls[k].page_token =
                  IF k = 1 THEN None ELSE search_resps[k - 1].nextPageToken
           /\ search_calls[k].query = search_calls[1].query
           /\ search_calls[k].order = search_calls[1].order
           /\ search_calls[k].published_after = search_calls[1].published_after
           /\ search_calls[k].published_before = search_calls[1].published_before

\* a second fetch was issued after a page of 30 items came with a token
C1_Witness ==
    /\ Len(search_calls) = 2
    /\ Len(search_resps[1].items) = 30
    /\ search_calls[2].page_token = "T1"
    /\ search_calls[2].max_results = 50
    /\ search_calls[2].query = "space science"

\* C2: no page fetch is issued once the accumulated count has reached the target,
\* a fetch has returned no continuation token, or a fetch has failed; the run
\* returns at once on the last two.  With target 100, a page of 50 with token T1
\* and a page of 30 without token, two fetches are issued and 80 stubs returned.
C2_StopsAfterEvent ==
    /\ \A k \in 0..(Len(search_calls) - 1) :
          /\ Len(ItemsOfPages(search_resps, k)) < max_total_results
          /\ k >= 1 => /\ search_resps[k].ok
                       /\ search_resps[k].nextPageToken \notin {None, ""}
    /\ (/\ search_resps # <<>>
        /\ \/ ~search_resps[Len(search_resps)].ok
           \/ search_resps[Len(search_resps)].nextPageToken \in {None, ""})
       => SearchReturned
    /\ (/\ max_total_results = 100
        /\ Len(search_resps) >= 2
        /\ search_resps[1].ok /\ Len(search_resps[1].items) = 50
        /\ search_resps[1].nextPageToken = "T1"
        /\ search_resps[2].ok /\ Len(search_resps[2].items) = 30
        /\ search_resps[2].nextPageToken = None)
       => /\ Len(search_calls) = 2
          /\ SearchReturned
          /\ Len(result) = 80

\* the scenario: 50 stubs with T1, then 30 stubs without token, target 100
C2_Witness ==
    /\ SearchReturned
    /\ max_total_results = 100
    /\ Len(search_calls) = 2
    /\ Len(search_resps[1].items) = 50
    /\ search_resps[1].nextPageToken = "T1"
    /\ Len(search_resps[2].items) = 30
    /\ search_resps[2].nextPageToken = None
    /\ Len(result) = 80

\* C3: the returned list, also stored in self.search_results, is the concatenation
\* in call order of the items of the pages fetched successfully; a failed fetch
\* leaves the earlier pages' items as the result and no exception reaches the caller.
C3_ConcatenationOfPages ==
    /\ pc \in {"search_loop", "search_sleep"}
          => all_videos = ItemsOfPages(search_resps, Len(search_resps))
    /\ SearchReturned
          => /\ result = ItemsOfPages(search_resps, Len(search_resps))
             /\ search_results = result
             /\ ~raised

\* the second fetch failed after a first page with items
C3_Witness ==
    /\ SearchReturned
    /\ Len(search_resps) = 2
    /\ ~search_resps[2].ok
    /\ result = PageItems(1, 30)

\* C4: the list search_videos_with_keywords returns has at most max_total_results
\* items, whatever the page-fetch collaborator answers (stated for the target
\* counts a maximum makes sense for, the non-negative ones).
C4_AtMostMaxTotalResults ==
    (SearchReturned /\ max_total_results >= 0) => Len(result) <= max_total_results

\* C5: between two consecutive page fetches of one run the delay is executed.
C5_DelayBetweenPageFetches ==
    \A k \in 1..(Len(log) - 1) : ~(log[k] = "search" /\ log[k + 1] = "search")

\* two fetches were made in one run
C5_Witness ==
    /\ Len(search_calls) = 2
    /\ log = <<"search", "sleep", "search">>

-----------------------------------------------------------------------------
(* Properties of SearchHandler.fetch_video_statistics *)

StatsReturned == pc = "idle" /\ last_op = "stats"

\* ceil(n / 50)
BatchesNeeded(n) == (n + 49) \div 50

\* the items of the first k answers of this run, in batch order
RECURSIVE ItemsOfBatches(_, _)
ItemsOfBatches(resps, k) ==
    IF k = 0 THEN <<>>
    ELSE ItemsOfBatches(resps, k - 1) \o (IF resps[k].ok THEN resps[k].items ELSE <<>>)

\* C6: the n identifiers are fetched in ceil(n/50) consecutive batches, all of 50
\* identifiers except possibly the last; the batches concatenated are the input
\* identifiers in order; 120 identifiers give batches of 50, 50 and 20.
C6_ConsecutiveBatches ==
    /\ \A k \in 1..Len(detail_calls) :
          /\ Len(detail_calls[k]) >= 1
          /\ Len(detail_calls[k]) <= 50
          /\ k < Len(detail_calls) => Len(detail_calls[k]) = 50
          /\ \A j \in 1..Len(detail_calls[k]) :
                detail_calls[k][j] = video_items[50 * (k - 1) + j].id.videoId
    /\ StatsReturned =>
          /\ Len(detail_calls) = BatchesNeeded(Len(video_items))
          /\ Concat(detail_calls) = [k \in DOMAIN video_items |-> video_items[k].id.videoId]
          /\ Len(video_items) = 120 =>
                <<Len(detail_calls[1]), Len(detail_calls[2]), Len(detail_calls[3])>>
                    = <<50, 50, 20>>

\* 120 identifiers were fetched
C6_Witness ==
    /\ StatsReturned
    /\ Len(video_items) = 120
    /\ Len(detail_calls) = 3

\* C7: a batch whose detail fetch fails is skipped and every later batch is still
\* fetched; the returned list is the concatenation in batch order of the items of
\* the batches that succeeded, and no exception reaches the caller.
C7_FailedBatchSkipped ==
    StatsReturned =>
        /\ Len(detail_calls) = BatchesNeeded(Len(video_items))
        /\ result = ItemsOfBatches(detail_resps, Len(detail_resps))
        /\ ~raised

\* the first batch failed, the second and third were fetched
C7_Witness ==
    /\ StatsReturned
    /\ Len(detail_resps) = 3
    /\ ~detail_resps[1].ok
    /\ detail_resps[2].ok
    /\ detail_resps[3].ok
    /\ Len(result) = 49 + 19

\* C8: the delay is applied between two consecutive detail fetches of one run,
\* whether the earlier one succeeded or failed.
C8_DelayBetweenDetailFetches ==
    \A k \in 1..(Len(log) - 1) : ~(log[k] = "details" /\ log[k + 1] = "details")


-----------------------------------------------------------------------------
(* DataProcessor.parse_duration *)

DigitChars == <<"0", "1", "2", "3", "4", "5", "6", "7", "8", "9">>

IsDigit(c) == \E d \in 1..10 : DigitChars[d] = c

\* int() of one digit
DigitValue(c) == (CHOOSE d \in 1..10 : DigitChars[d] = c) - 1

\* int(group) of a run of digits
RECURSIVE ToInt(_)
ToInt(digits) ==
    IF digits = <<>> THEN 0
    ELSE 10 * ToInt(SubSeq(digits, 1, Len(digits) - 1)) + DigitValue(digits[Len(digits)])

\* str(n) of a non-negative integer
RECURSIVE ToChars(_)
ToChars(n) ==
    IF n < 10 THEN <<DigitChars[n + 1]>>
    ELSE ToChars(n \div 10) \o <<DigitChars[(n % 10) + 1]>>

\* duration_str.replace('PT', ''): every occurrence, left to right
RECURSIVE RemovePT(_)
RemovePT(s) ==
    IF Len(s) < 2 THEN s
    ELSE IF s[1] = "P" /\ s[2] = "T" THEN RemovePT(SubSeq(s, 3, Len(s)))
    ELSE <<s[1]>> \o RemovePT(Tail(s))

\* last index of the longest run of digits that starts at index k
RECURSIVE RunEnd(_, _)
RunEnd(s, k) == IF k < Len(s) /\ IsDigit(s[k + 1]) THEN RunEnd(s, k + 1) ELSE k

\* (\d+)X matches at index k: a greedy run of digits followed by the designator
MatchesAt(s, k, designator) ==
    /\ IsDigit(s[k])
    /\ RunEnd(s, k) < Len(s)
    /\ s[RunEnd(s, k) + 1] = designator

\* re.search(r'(\d+)X', s): TRUE when there is a match
Search(s, designator) == \E k \in 1..Len(s) : MatchesAt(s, k, designator)

\* .group(1) of the leftmost match
Group1_Mutant(s, designator) ==
    LET k == CHOOSE j \in 1..Len(s) :
                 /\ MatchesAt(s, j, designator)
                 /\ \A l \in 1..(j - 1) : ~MatchesAt(s, l, designator)
    IN <<s[RunEnd(s, k)]>>
Group1(s, designator) ==
    LET k == CHOOSE j \in 1..Len(s) :
                 /\ MatchesAt(s, j, designator)
                 /\ \A l \in 1..(j - 1) : ~MatchesAt(s, l, designator)
    IN SubSeq(s, k, RunEnd(s, k))

\* lines 39-51: the component of one designator, 0 without a match
Component(s, designator) ==
    IF Search(s, designator) THEN ToInt(Group1(s, designator)) ELSE 0

parse_duration(d) ==
    IF d.is_none \/ d.chars = <<>> \/ d.chars = <<"N", "/", "A">> THEN 0
    ELSE LET s == RemovePT(d.chars)
         IN Component(s, "H") * 3600 + Component(s, "M") * 60 + Component(s, "S")

(* The tokens the codec is run on *)

Absent == -1
Parts == {Absent} \cup 0..MaxPart

\* the token 'PT{h}H{m}M{s}S' without the components that are Absent
Token(h, m, s) ==
    Str(<<"P", "T">>
        \o (IF h = Absent THEN <<>> ELSE ToChars(h) \o <<"H">>)
        \o (IF m = Absent THEN <<>> ELSE ToChars(m) \o <<"M">>)
        \o (IF s = Absent THEN <<>> ELSE ToChars(s) \o <<"S">>))

FormedTokens == { Token(h, m, s) : h \in Parts, m \in Parts, s \in Parts }

\* absent and irregular arguments
OtherTokens ==
    { NoneStr,
      Str(<<>>),
      Str(<<"N", "/", "A">>),
      Str(<<"4", "M", "1", "3", "S">>),
      Str(<<"P", "1", "D", "T", "2", "H">>),
      Str(<<"P", "T", "1", "3", "S", "4", "M">>),
      Str(<<"P", "1", "D">>),
      Str(<<"P", "T", "5", "X">>),
      Str(<<"a", "b", "c">>) }

DurationTokens == FormedTokens \cup OtherTokens

InitCodec ==
    /\ search_results = <<>>
    /\ video_details = <<>>
    /\ pc = "idle"
    /\ last_op = "none"
    /\ result = <<>>
    /\ raised = FALSE
    /\ ops = 0
    /\ max_total_results = 0
    /\ query = ""
    /\ order = "viewCount"
    /\ published_after = None
    /\ published_before = None
    /\ all_videos = <<>>
    /\ next_page_token = None
    /\ video_items = <<>>
    /\ i = 0
    /\ all_details = <<>>
    /\ search_calls = <<>>
    /\ search_resps = <<>>
    /\ detail_calls = <<>>
    /\ detail_resps = <<>>
    /\ log = <<>>
    /\ duration_str \in DurationTokens
    /\ dpc = "start"
    /\ duration_seconds = 0
    /\ ProcessorIdle

\* one call of DataProcessor.parse_duration
ParseDuration ==
    /\ dpc = "start"
    /\ duration_seconds' = parse_duration(duration_str)
    /\ dpc' = "parsed"
    /\ UNCHANGED <<handlerVars, duration_str, processorVars>>

NextCodec == ParseDuration

SpecCodec == InitCodec /\ [][NextCodec]_vars

-----------------------------------------------------------------------------
(* Properties of DataProcessor.parse_duration *)

Parsed == dpc = "parsed"

\* the count a component stands for: 0 when its designator is absent
Count(part) == IF part = Absent THEN 0 ELSE part

\* C9: parse_duration of 'PT{h}H{m}M{s}S' is h*3600 + m*60 + s, a component whose
\* designator is absent counting as 0.
C9_ParseFormedToken ==
    Parsed =>
        \A h \in Parts, m \in Parts, s \in Parts :
            duration_str = Token(h, m, s)
                => duration_seconds = Count(h) * 3600 + Count(m) * 60 + Count(s)

\* 'PT10H11M' was parsed
C9_Witness ==
    /\ Parsed
    /\ duration_str = Str(<<"P", "T", "1", "0", "H", "1", "1", "M">>)
    /\ duration_seconds = 36660

\* what is left of s after a leading 'nX' component, s itself when there is none
AfterComponent(s, designator) ==
    IF s # <<>> /\ MatchesAt(s, 1, designator)
    THEN SubSeq(s, RunEnd(s, 1) + 2, Len(s))
    ELSE s

\* the token has the form PT[nH][nM][nS]
HasTokenForm(chars) ==
    /\ Len(chars) >= 2
    /\ chars[1] = "P"
    /\ chars[2] = "T"
    /\ AfterComponent(AfterComponent(AfterComponent(SubSeq(chars, 3, Len(chars)),
                                                    "H"), "M"), "S") = <<>>

\* C10: parse_duration returns 0 for the empty string, the null marker and every
\* string that is not of the form PT[nH][nM][nS].
C10_MalformedYieldsZero ==
    (Parsed /\ (duration_str.is_none \/ ~HasTokenForm(duration_str.chars)))
        => duration_seconds = 0

-----------------------------------------------------------------------------
(* DataProcessor.format_duration, is_youtube_short, get_video_type *)

MaxSeconds == 3700   \* the durations 0..MaxSeconds are explored

\* the durations the functions are called on: every one up to MaxSeconds, and
\* durations of ten hours and more
Durations == 0..MaxSeconds \cup {36000, 86399, 360000}

\* f"{n:02d}" of a non-negative integer
Pad2_Mutant(n) == ToChars(n)
Pad2(n) == IF n < 10 THEN <<"0">> \o ToChars(n) ELSE ToChars(n)

format_duration(secs_arg) ==
    IF secs_arg = 0 THEN <<"0", ":", "0", "0">>
    ELSE LET hours == secs_arg \div 3600
             minutes == (secs_arg % 3600) \div 60
             secs == secs_arg % 60
         IN IF hours > 0
            THEN ToChars(hours) \o <<":">> \o Pad2(minutes) \o <<":">> \o Pad2(secs)
            ELSE ToChars(minutes) \o <<":">> \o Pad2(secs)

is_youtube_short_Mutant(dur) == dur <= 60
is_youtube_short(dur) == 0 < dur /\ dur <= 60

get_video_type_Mutant(dur) ==
    IF dur = 0 THEN "Unknown"
    ELSE IF dur < 60 THEN "Short"
    ELSE IF dur <= 240 THEN "Short Video"
    ELSE IF dur <= 600 THEN "Medium Video"
    ELSE IF dur <= 1200 THEN "Long Video"
    ELSE "Very Long Video"
get_video_type(dur) ==
    IF dur = 0 THEN "Unknown"
    ELSE IF dur <= 60 THEN "Short"
    ELSE IF dur <= 240 THEN "Short Video"
    ELSE IF dur <= 600 THEN "Medium Video"
    ELSE IF dur <= 1200 THEN "Long Video"
    ELSE "Very Long Video"

\* everything but the processor's variables is at rest
HandlerIdle ==
    /\ search_results = <<>>
    /\ video_details = <<>>
    /\ pc = "idle"
    /\ last_op = "none"
    /\ result = <<>>
    /\ raised = FALSE
    /\ ops = 0
    /\ max_total_results = 0
    /\ query = ""
    /\ order = "viewCount"
    /\ published_after = None
    /\ published_before = None
    /\ all_videos = <<>>
    /\ next_page_token = None
    /\ video_items = <<>>
    /\ i = 0
    /\ all_details = <<>>
    /\ search_calls = <<>>
    /\ search_resps = <<>>
    /\ detail_calls = <<>>
    /\ detail_resps = <<>>
    /\ log = <<>>

CodecIdle ==
    /\ duration_str = NoneStr
    /\ dpc = "idle"
    /\ duration_seconds = 0

InitDuration ==
    /\ HandlerIdle
    /\ CodecIdle
    /\ QuotaIdle
    /\ NormalizerIdle
    /\ FiltersIdle
    /\ seconds \in Durations
    /\ formatted = <<>>
    /\ short = FALSE
    /\ category = ""
    /\ applied = {}

\* one call of DataProcessor.format_duration
FormatDuration ==
    /\ "format_duration" \notin applied
    /\ formatted' = format_duration(seconds)
    /\ applied' = applied \cup {"format_duration"}
    /\ UNCHANGED <<handlerVars, codecVars, quotaVars, normalizerVars, filterVars,
                   seconds, short, category>>

\* one call of DataProcessor.is_youtube_short
IsYoutubeShort ==
    /\ "is_youtube_short" \notin applied
    /\ short' = is_youtube_short(seconds)
    /\ applied' = applied \cup {"is_youtube_short"}
    /\ UNCHANGED <<handlerVars, codecVars, quotaVars, normalizerVars, filterVars,
                   seconds, formatted, category>>

\* one call of DataProcessor.get_video_type
GetVideoType ==
    /\ "get_video_type" \notin applied
    /\ category' = get_video_type(seconds)
    /\ applied' = applied \cup {"get_video_type"}
    /\ UNCHANGED <<handlerVars, codecVars, quotaVars, normalizerVars, filterVars,
                   seconds, formatted, short>>

NextDuration ==
    \/ FormatDuration
    \/ IsYoutubeShort
    \/ GetVideoType

SpecDuration == InitDuration /\ [][NextDuration]_vars

-----------------------------------------------------------------------------
(* Properties of format_duration, get_video_type, is_youtube_short *)

\* the fields of a display string, split at the colons
RECURSIVE Fields(_)
Fields(chars) ==
    IF \A k \in 1..Len(chars) : chars[k] # ":" THEN <<chars>>
    ELSE LET c == CHOOSE k \in 1..Len(chars) :
                      chars[k] = ":" /\ \A l \in 1..(k - 1) : chars[l] # ":"
         IN <<SubSeq(chars, 1, c - 1)>> \o Fields(SubSeq(chars, c + 1, Len(chars)))

AllDigits(chars) == chars # <<>> /\ \A k \in 1..Len(chars) : IsDigit(chars[k])

\* a field written without padding: no leading zero except for the number 0
Unpadded(chars) == AllDigits(chars) /\ (Len(chars) > 1 => chars[1] # "0")

\* C11: format_duration gives '0:00' for 0, 'H:MM:SS' from 3600 seconds on and
\* 'M:SS' below; hours and the minutes of M:SS are unpadded, the other fields
\* have two digits and are in 0..59, and the fields add up to the input.
C11_FormatDuration ==
    "format_duration" \in applied =>
        LET f == Fields(formatted)
        IN /\ seconds = 0 => formatted = <<"0", ":", "0", "0">>
           /\ Len(f) = IF seconds >= 3600 THEN 3 ELSE 2
           /\ \A k \in 1..Len(f) : AllDigits(f[k])
           /\ Unpadded(f[1])
           /\ \A k \in 2..Len(f) : Len(f[k]) = 2 /\ ToInt(f[k]) \in 0..59
           /\ Len(f) = 3 =>
                 /\ ToInt(f[1]) = seconds \div 3600
                 /\ ToInt(f[1]) * 3600 + ToInt(f[2]) * 60 + ToInt(f[3]) = seconds
           /\ Len(f) = 2 => ToInt(f[1]) * 60 + ToInt(f[2]) = seconds

\* 3665 seconds were formatted as 1:01:05
C11_Witness ==
    /\ "format_duration" \in applied
    /\ seconds = 3665
    /\ formatted = <<"1", ":", "0", "1", ":", "0", "5">>

\* C12: get_video_type puts every duration into one category, with bands that
\* include their upper end: 0 Unknown, 1..60 Short, 61..240 Short Video,
\* 241..600 Medium Video, 601..1200 Long Video, above 1200 Very Long Video.
C12_VideoTypeBands ==
    "get_video_type" \in applied =>
        /\ category = "Unknown" <=> seconds = 0
        /\ category = "Short" <=> seconds \in 1..60
        /\ category = "Short Video" <=> seconds \in 61..240
        /\ category = "Medium Video" <=> seconds \in 241..600
        /\ category = "Long Video" <=> seconds \in 601..1200
        /\ category = "Very Long Video" <=> seconds > 1200
        /\ category \in {"Unknown", "Short", "Short Video", "Medium Video",
                         "Long Video", "Very Long Video"}

\* a duration of 60 seconds was classified
C12_Witness ==
    /\ "get_video_type" \in applied
    /\ seconds = 60
    /\ category = "Short"

-----------------------------------------------------------------------------
(* DataProcessor.extract_video_info.  A dict is a function on its keys, a   *)
(* str the sequence of its characters.                                      *)

EmptyDict == <<>>

\* d.get(key, default)
Get(d, key, default) == IF key \in DOMAIN d THEN d[key] ELSE default

\* int(s) of a str: an optional sign and digits, ValueError otherwise
PyInt(chars) ==
    LET digits == IF chars # <<>> /\ chars[1] \in {"+", "-"} THEN Tail(chars) ELSE chars
    IN IF AllDigits(digits)
       THEN [ok |-> TRUE,
             value |-> IF chars[1] = "-" THEN 0 - ToInt(digits) ELSE ToInt(digits)]
       ELSE [ok |-> FALSE, value |-> 0]

\* int(statistics.get(key, 0))
IntField_Mutant(statistics, key) == PyInt(Get(statistics, key, <<>>))
IntField(statistics, key) ==
    IF key \in DOMAIN statistics THEN PyInt(statistics[key]) ELSE [ok |-> TRUE, value |-> 0]

\* separator.join(strings)
RECURSIVE JoinStr(_, _)
JoinStr(strings, separator) ==
    IF strings = <<>> THEN <<>>
    ELSE IF Len(strings) = 1 THEN strings[1]
    ELSE strings[1] \o separator \o JoinStr(Tail(strings), separator)

\* ', '.join(tags) if tags else 'No tags'
TagsString(tags) == IF tags # <<>> THEN JoinStr(tags, <<",", " ">>) ELSE <<"N", "o", " ", "t", "a", "g", "s">>

\* thumbnail_info['url'] if thumbnail_info['url'] else 'No thumbnail'
ThumbnailString(url) == IF url # <<>> THEN url ELSE <<"N", "o", " ", "t", "h", "u", "m", "b", "n", "a", "i", "l">>

\* full_description[:500]
First500(chars) == SubSeq(chars, 1, Min(500, Len(chars)))

\* video.get('id'): a str, or None without the key
VideoId(v) == IF "id" \in DOMAIN v THEN Str(v["id"]) ELSE NoneStr

\* f"https://www.youtube.com/watch?v={video.get('id')}"
WatchUrl_Mutant(id) ==
    <<"h", "t", "t", "p", "s", ":", "/", "/", "y", "o", "u", "t", "u", ".", "b", "e", "/">>
        \o (IF id.is_none THEN <<"N", "o", "n", "e">> ELSE id.chars)
WatchUrl(id) ==
    <<"h", "t", "t", "p", "s", ":", "/", "/", "w", "w", "w", ".", "y", "o", "u", "t">>
        \o <<"u", "b", "e", ".", "c", "o", "m", "/", "w", "a", "t", "c", "h", "?", "v", "=">>
        \o (IF id.is_none THEN <<"N", "o", "n", "e">> ELSE id.chars)

\* lines 128-183; raised is TRUE when one of the int() calls raises ValueError
extract_video_info(v) ==
    LET snippet == Get(v, "snippet", EmptyDict)
        statistics == Get(v, "statistics", EmptyDict)
        content_details == Get(v, "contentDetails", EmptyDict)
        view_count == IntField(statistics, "viewCount")
        duration_iso == Get(content_details, "duration", <<"N", "/", "A">>)
        dur == parse_duration(Str(duration_iso))
        tags == Get(snippet, "tags", <<>>)
        thumbnail_high == Get(Get(snippet, "thumbnails", EmptyDict), "high", EmptyDict)
        thumbnail_info == [url |-> Get(thumbnail_high, "url", <<>>),
                           width |-> Get(thumbnail_high, "width", 0),
                           height |-> Get(thumbnail_high, "height", 0)]
        full_description == Get(snippet, "description", <<>>)
        like_count == IntField(statistics, "likeCount")
        comment_count == IntField(statistics, "commentCount")
    IN IF ~(view_count.ok /\ like_count.ok /\ comment_count.ok)
       THEN [raised |-> TRUE, value |-> EmptyDict]
       ELSE [raised |-> FALSE,
             value |->
               [video_id |-> VideoId(v),
                title |-> Get(snippet, "title", <<>>),
                channel |-> Get(snippet, "channelTitle", <<>>),
                channel_id |-> Get(snippet, "channelId", <<>>),
                published_at |-> Get(snippet, "publishedAt", <<>>),
                description |-> full_description,
                description_short |-> First500(full_description),
                view_count |-> view_count.value,
                like_count |-> like_count.value,
                comment_count |-> comment_count.value,
                duration |-> format_duration(dur),
                duration_seconds |-> dur,
                is_short |-> is_youtube_short(dur),
                video_type |-> get_video_type(dur),
                tags |-> TagsString(tags),
                tags_list |-> tags,
                thumbnail_url |-> ThumbnailString(thumbnail_info.url),
                thumbnail_object |-> thumbnail_info,
                url |-> WatchUrl(VideoId(v))]]

(* The raw items extract_video_info is run on: each section present or not *)

IdParts == {EmptyDict, "id" :> <<"v", "1">>}

SnippetParts ==
    { EmptyDict,
      "snippet" :> [title |-> <<"S", "p", "a", "c", "e", " ", "E", "x", "p", "l", "o", "r", "a", "t", "i", "o", "n", " ", "T", "o", "d", "a", "y">>,
                    channelTitle |-> <<"N", "A", "S", "A">>,
                    channelId |-> <<"U", "C", "1">>,
                    publishedAt |-> <<"2", "0", "2", "4", "-", "0", "5", "-", "0", "1", "T", "0", "0", ":", "0", "0", ":", "0", "0", "Z">>,
                    description |-> <<"A", " ", "t", "o", "u", "r">>,
                    tags |-> <<<<"s", "p", "a", "c", "e">>, <<"n", "a", "s", "a">>>>,
                    thumbnails |-> [high |-> [url |-> <<"h", "t", "t", "p", "s", ":", "/", "/", "i", ".", "y", "t", "i", "m", "g", ".", "c", "o", "m", "/", "v", "i", "/", "v", "1", "/", "h", "q", ".", "j", "p", "g">>,
                                              width |-> 480, height |-> 360]]],
      "snippet" :> [title |-> <<"s", "p", "a", "c", "e", " ", "e", "x", "p", "l", "o", "r", "a", "t", "i", "o", "n">>],
      "snippet" :> [title |-> <<"s", "p", "a", "c", "e", " ", "e", "x", "p", "l", "o", "r", "a", "t", "i", "o", "n">>,
                    thumbnails |-> [default |-> [url |-> <<"h", "t", "t", "p", "s", ":", "/", "/", "i", ".", "y", "t", "i", "m", "g", ".", "c", "o", "m", "/", "v", "i", "/", "v", "1", "/", "h", "q", ".", "j", "p", "g">>,
                                                 width |-> 120, height |-> 90]]] }

StatisticsParts ==
    { EmptyDict,
      "statistics" :> [viewCount |-> <<"2", "0", "0", "0", "0">>, likeCount |-> <<"1", "5">>, commentCount |-> <<"3">>],
      "statistics" :> [viewCount |-> <<"5", "0", "0", "0">>],
      "statistics" :> [viewCount |-> <<"a", "b", "c">>],
      "statistics" :> [viewCount |-> <<"1", "5">>, likeCount |-> <<>>],
      "statistics" :> [viewCount |-> <<"1", "5">>, commentCount |-> <<"-", "5">>] }

ContentDetailsParts ==
    { EmptyDict,
      "contentDetails" :> EmptyDict,
      "contentDetails" :> [duration |-> <<"P", "T", "4", "5", "S">>],
      "contentDetails" :> [duration |-> <<"P", "T", "1", "M">>],
      "contentDetails" :> [duration |-> <<"P", "T", "4", "M", "1", "3", "S">>],
      "contentDetails" :> [duration |-> <<"P", "T", "1", "H", "2", "M", "1", "0", "S">>],
      "contentDetails" :> [duration |-> <<"P", "1", "D", "T", "2", "H">>] }

RawItems ==
    { a @@ b @@ c @@ d : a \in IdParts, b \in SnippetParts,
                         c \in StatisticsParts, d \in ContentDetailsParts }

InitNormalizer ==
    /\ HandlerIdle
    /\ CodecIdle
    /\ QuotaIdle
    /\ DurationIdle
    /\ FiltersIdle
    /\ video \in RawItems
    /\ info = [video_id |-> None]
    /\ xpc = "start"
    /\ raw_videos = <<>>

\* one call of DataProcessor.extract_video_info
ExtractVideoInfo ==
    /\ xpc = "start"
    /\ LET outcome == extract_video_info(video)
       IN IF outcome.raised
          THEN xpc' = "raised" /\ info' = info
          ELSE xpc' = "returned" /\ info' = outcome.value
    /\ UNCHANGED <<handlerVars, codecVars, quotaVars, durationVars, filterVars, video, raw_videos>>

NextNormalizer == ExtractVideoInfo

SpecNormalizer == InitNormalizer /\ [][NextNormalizer]_vars

-----------------------------------------------------------------------------
(* Properties of extract_video_info *)

Extracted == xpc \in {"returned", "raised"}

NoSections == DOMAIN video \cap {"snippet", "statistics", "contentDetails"} = {}

\* the numeric fields are 0, category and is_short are those of an unknown duration
ZeroNumbers ==
    /\ info.view_count = 0
    /\ info.like_count = 0
    /\ info.comment_count = 0
    /\ info.duration_seconds = 0
    /\ info.thumbnail_object.width = 0
    /\ info.thumbnail_object.height = 0
    /\ info.video_type = "Unknown"
    /\ info.is_short = FALSE

\* the text fields taken from the snippet are empty
EmptyTexts ==
    /\ info.title = <<>>
    /\ info.channel = <<>>
    /\ info.channel_id = <<>>
    /\ info.published_at = <<>>
    /\ info.description = <<>>
    /\ info.description_short = <<>>
    /\ info.thumbnail_object.url = <<>>

Irregular(key) ==
    LET statistics == Get(video, "statistics", EmptyDict)
    IN key \notin DOMAIN statistics \/ ~AllDigits(statistics[key])

\* C15: extract_video_info never raises on irregular statistics: the three counts
\* are non-negative integers, 0 where the value is absent or not numeric.
C15_CountsCoerced ==
    Extracted =>
        /\ xpc = "returned"
        /\ info.view_count \in Nat /\ (Irregular("viewCount") => info.view_count = 0)
        /\ info.like_count \in Nat /\ (Irregular("likeCount") => info.like_count = 0)
        /\ info.comment_count \in Nat
        /\ Irregular("commentCount") => info.comment_count = 0

-----------------------------------------------------------------------------
(* DataProcessor's filters and sort_videos, applied to a list of records *)

MaxLen == 3          \* records in the list the filters start from

UpperCase == <<"A", "B", "C", "D", "E", "F", "G", "H", "I", "J", "K", "L", "M", "N", "O", "P", "Q", "R", "S", "T", "U", "V", "W", "X", "Y", "Z">>
LowerCase == <<"a", "b", "c", "d", "e", "f", "g", "h", "i", "j", "k", "l", "m", "n", "o", "p", "q", "r", "s", "t", "u", "v", "w", "x", "y", "z">>

\* the characters of the model's strings in code point order
Ascii == <<" ">> \o DigitChars \o UpperCase \o LowerCase

Ord(c) == CHOOSE k \in 1..Len(Ascii) : Ascii[k] = c

\* str.lower()
Lower(chars) ==
    [k \in 1..Len(chars) |->
        IF \E u \in 1..Len(UpperCase) : UpperCase[u] = chars[k]
        THEN LowerCase[CHOOSE u \in 1..Len(UpperCase) : UpperCase[u] = chars[k]]
        ELSE chars[k]]

\* keyword in title
Occurs(keyword, title) ==
    \E k \in 0..(Len(title) - Len(keyword)) : SubSeq(title, k + 1, k + Len(keyword)) = keyword

\* value in a list
In(value, list) == \E k \in 1..Len(list) : list[k] = value

\* an optional argument: the caller gave a value or left it to the default
Given(value) == [given |-> TRUE, value |-> value]
NotGiven == [given |-> FALSE, value |-> 0]

filter_by_video_type_Mutant(videos, video_types) ==
    LET Keep(v) == "video_type" \in DOMAIN v /\ In(v.video_type, video_types)
    IN IF video_types = <<>> THEN videos ELSE SelectSeq(videos, Keep)
filter_by_video_type(videos, video_types) ==
    LET Keep(v) == "video_type" \in DOMAIN v /\ In(v.video_type, video_types)
    IN SelectSeq(videos, Keep)

filter_shorts_only(videos) ==
    LET Keep(v) == Get(v, "is_short", FALSE)
    IN SelectSeq(videos, Keep)

filter_regular_videos_only_Mutant(videos) ==
    LET Keep(v) == "is_short" \in DOMAIN v /\ ~v.is_short
    IN SelectSeq(videos, Keep)
filter_regular_videos_only(videos) ==
    LET Keep(v) == ~Get(v, "is_short", FALSE)
    IN SelectSeq(videos, Keep)

\* min_seconds defaults to 0, max_seconds to float('inf')
filter_by_duration_Mutant(videos, min_seconds, max_seconds) ==
    LET lowest == IF min_seconds.given THEN min_seconds.value ELSE 0
        Keep(v) == /\ lowest <= Get(v, "duration_seconds", 0)
                   /\ max_seconds.given => Get(v, "duration_seconds", 0) < max_seconds.value
    IN SelectSeq(videos, Keep)
filter_by_duration(videos, min_seconds, max_seconds) ==
    LET lowest == IF min_seconds.given THEN min_seconds.value ELSE 0
        Keep(v) == /\ lowest <= Get(v, "duration_seconds", 0)
                   /\ max_seconds.given => Get(v, "duration_seconds", 0) <= max_seconds.value
    IN SelectSeq(videos, Keep)

filter_by_views_Mutant(videos, min_views) ==
    LET Keep(v) == Get(v, "view_count", 0) > min_views
    IN SelectSeq(videos, Keep)
filter_by_views(videos, min_views) ==
    LET Keep(v) == Get(v, "view_count", 0) >= min_views
    IN SelectSeq(videos, Keep)

filter_by_keywords_in_title_Mutant(videos, keywords, case_sensitive) ==
    LET Keep(v) ==
            LET given_title == Get(v, "title", <<>>)
                title == IF ~case_sensitive THEN Lower(given_title) ELSE given_title
            IN \E k \in 1..Len(keywords) : Occurs(keywords[k], title)
    IN SelectSeq(videos, Keep)
filter_by_keywords_in_title(videos, keywords, case_sensitive) ==
    LET Keep(v) ==
            LET given_title == Get(v, "title", <<>>)
                title == IF ~case_sensitive THEN Lower(given_title) ELSE given_title
                lowered == IF ~case_sensitive
                           THEN [k \in 1..Len(keywords) |-> Lower(keywords[k])]
                           ELSE keywords
            IN \E k \in 1..Len(lowered) : Occurs(lowered[k], title)
    IN SelectSeq(videos, Keep)

\* the fields of a record that hold a str
TextFields == {"title", "channel", "channel_id", "published_at", "description",
               "description_short", "duration", "video_type", "tags", "thumbnail_url", "url"}

\* x.get(sort_by, 0): a str or a number
SortKey(x, sort_by) ==
    IF sort_by \in DOMAIN x /\ sort_by \in TextFields
    THEN [text |-> TRUE, chars |-> x[sort_by], number |-> 0]
    ELSE [text |-> FALSE, chars |-> <<>>, number |-> Get(x, sort_by, 0)]

\* a < b for two str: the first differing character decides, a proper prefix is smaller
StrLess(a, b) ==
    \E k \in 1..Len(b) :
        /\ \A j \in 1..(k - 1) : j <= Len(a) /\ a[j] = b[j]
        /\ k > Len(a) \/ (k <= Len(a) /\ Ord(a[k]) < Ord(b[k]))

\* a < b for two keys of one type
KeyLess(a, b) == IF a.text THEN StrLess(a.chars, b.chars) ELSE a.number < b.number

Reverse(list) == [k \in 1..Len(list) |-> list[Len(list) + 1 - k]]

\* x goes behind every element that is not greater than it
RECURSIVE InsertSorted(_, _, _)
InsertSorted(x, sorted, sort_by) ==
    IF sorted = <<>> THEN <<x>>
    ELSE IF KeyLess(SortKey(x, sort_by), SortKey(sorted[1], sort_by))
         THEN <<x>> \o sorted
         ELSE <<sorted[1]>> \o InsertSorted(x, Tail(sorted), sort_by)

\* a stable ascending sort
RECURSIVE StableSort(_, _)
StableSort(list, sort_by) ==
    IF list = <<>> THEN <<>>
    ELSE InsertSorted(list[Len(list)], StableSort(SubSeq(list, 1, Len(list) - 1), sort_by),
                      sort_by)

\* sorted(videos, key=lambda x: x.get(sort_by, 0), reverse=descending): with reverse
\* the list is reversed, sorted and reversed again; comparing a str with a number
\* raises TypeError
sort_videos_Mutant2(videos, sort_by, descending) ==
    IF \E j, k \in 1..Len(videos) :
           SortKey(videos[j], sort_by).text # SortKey(videos[k], sort_by).text
    THEN [raised |-> TRUE, value |-> <<>>]
    ELSE [raised |-> FALSE,
          value |-> IF Len(videos) <= 2 THEN videos
                    ELSE IF descending
                    THEN Reverse(StableSort(Reverse(videos), sort_by))
                    ELSE StableSort(videos, sort_by)]
sort_videos_Mutant(videos, sort_by, descending) ==
    IF \E j, k \in 1..Len(videos) :
           SortKey(videos[j], sort_by).text # SortKey(videos[k], sort_by).text
    THEN [raised |-> TRUE, value |-> <<>>]
    ELSE [raised |-> FALSE,
          value |-> IF descending
                    THEN Reverse(StableSort(videos, sort_by))
                    ELSE StableSort(videos, sort_by)]
sort_videos(videos, sort_by, descending) ==
    IF \E j, k \in 1..Len(videos) :
           SortKey(videos[j], sort_by).text # SortKey(videos[k], sort_by).text
    THEN [raised |-> TRUE, value |-> <<>>]
    ELSE [raised |-> FALSE,
          value |-> IF descending
                    THEN Reverse(StableSort(Reverse(videos), sort_by))
                    ELSE StableSort(videos, sort_by)]

(* The records the filters are run on: normalized items, and dicts that     *)
(* lack some of the keys                                                    *)

RawVideo(id, title, views, duration) ==
    "id" :> id @@ "snippet" :> [title |-> title] @@ "statistics" :> [viewCount |-> views]
        @@ "contentDetails" :> [duration |-> duration]

PoolItems ==
    { RawVideo(<<"v", "1">>, <<"S", "p", "a", "c", "e", " ", "E", "x", "p", "l", "o", "r", "a", "t", "i", "o", "n", " ", "T", "o", "d", "a", "y">>, <<"2", "0", "0", "0", "0">>, <<"P", "T", "4", "5", "S">>),
      RawVideo(<<"v", "2">>, <<"s", "p", "a", "c", "e", " ", "e", "x", "p", "l", "o", "r", "a", "t", "i", "o", "n">>, <<"5", "0", "0", "0">>, <<"P", "T", "4", "M", "1", "3", "S">>),
      RawVideo(<<"v", "3">>, <<"N", "A", "S", "A", " ", "n", "e", "w", "s">>, <<"1", "5", "0", "0", "0">>, <<"P", "T", "1", "H", "2", "M", "1", "0", "S">>),
      RawVideo(<<"v", "4">>, <<"S", "p", "a", "c", "e", " ", "E", "x", "p", "l", "o", "r", "a", "t", "i", "o", "n", " ", "T", "o", "d", "a", "y">>, <<"2", "0", "0", "0", "0">>, <<"P", "T", "1", "M">>),
      "statistics" :> [viewCount |-> <<"1", "0", "0", "0", "0">>] }

Normalized == { extract_video_info(v).value : v \in PoolItems }

PartialRecords == { [duration_seconds |-> 61] }

Pool == Normalized \cup PartialRecords

RECURSIVE ListsUpTo(_, _)
ListsUpTo(pool, n) ==
    IF n = 0 THEN {<<>>}
    ELSE LET shorter == ListsUpTo(pool, n - 1)
         IN shorter \cup { Append(l, x) : l \in shorter, x \in pool }

\* the arguments the filters are called with
ViewThresholds == {10000, 15000, 20001}
KeywordLists == {<<<<"s", "p", "a", "c", "e">>>>, <<<<"S", "p", "a", "c", "e">>>>,
                 <<<<"t", "o", "d", "a", "y">>, <<"n", "a", "s", "a">>>>}
MinDurations == {NotGiven, Given(60), Given(61)}
MaxDurations == {NotGiven, Given(253)}
TypeLists == {<<>>, <<"Short">>, <<"Short Video", "Very Long Video">>}
SortFields == {"view_count", "duration_seconds", "title", "rating"}

InitFilters ==
    /\ HandlerIdle
    /\ CodecIdle
    /\ QuotaIdle
    /\ DurationIdle
    /\ NormalizerIdle
    /\ processed \in ListsUpTo(Pool, MaxLen)
    /\ last = [op |-> "none"]

\* the caller's list when the call is over: the comprehensions, the loop with
\* filtered.append and sorted() build a new list and assign to no element of videos
ListAfter(op, videos) == videos

\* the caller's arguments when the call is over: line 281 binds the local name
\* keywords to a new list of lowercased keywords
ArgumentsAfter_Mutant(op, args) ==
    IF op = "filter_by_keywords_in_title" /\ ~args.case_sensitive
    THEN [args EXCEPT !.keywords = [k \in 1..Len(@) |-> Lower(@[k])]]
    ELSE args
ArgumentsAfter(op, args) == args

\* the call's name, arguments, input and outcome; processed is rebound to the result
Called(op, args, outcome) ==
    /\ last' = [op |-> op, args |-> args, input |-> processed,
                raised |-> outcome.raised, output |-> outcome.value,
                input_after |-> ListAfter(op, processed),
                args_after |-> ArgumentsAfter(op, args)]
    /\ processed' = IF outcome.raised THEN processed ELSE outcome.value
    /\ UNCHANGED <<handlerVars, codecVars, quotaVars, durationVars, normalizerVars>>

Returned(list) == [raised |-> FALSE, value |-> list]

FilterByVideoType ==
    \E video_types \in TypeLists :
        Called("filter_by_video_type", [video_types |-> video_types],
               Returned(filter_by_video_type(processed, video_types)))

FilterShortsOnly ==
    Called("filter_shorts_only", EmptyDict, Returned(filter_shorts_only(processed)))

FilterRegularVideosOnly ==
    Called("filter_regular_videos_only", EmptyDict,
           Returned(filter_regular_videos_only(processed)))

FilterByDuration ==
    \E min_seconds \in MinDurations, max_seconds \in MaxDurations :
        Called("filter_by_duration", [min_seconds |-> min_seconds, max_seconds |-> max_seconds],
               Returned(filter_by_duration(processed, min_seconds, max_seconds)))

FilterByViews ==
    \E min_views \in ViewThresholds :
        Called("filter_by_views", [min_views |-> min_views],
               Returned(filter_by_views(processed, min_views)))

FilterByKeywordsInTitle ==
    \E keywords \in KeywordLists, case_sensitive \in BOOLEAN :
        Called("filter_by_keywords_in_title",
               [keywords |-> keywords, case_sensitive |-> case_sensitive],
               Returned(filter_by_keywords_in_title(processed, keywords, case_sensitive)))

SortVideos ==
    \E sort_by \in SortFields, descending \in BOOLEAN :
        Called("sort_videos", [sort_by |-> sort_by, descending |-> descending],
               sort_videos(processed, sort_by, descending))

NextFilters ==
    \/ FilterByVideoType
    \/ FilterShortsOnly
    \/ FilterRegularVideosOnly
    \/ FilterByDuration
    \/ FilterByViews
    \/ FilterByKeywordsInTitle
    \/ SortVideos

SpecFilters == InitFilters /\ [][NextFilters]_vars

-----------------------------------------------------------------------------
(* Properties of the filters *)

\* the elements of list at the positions in keep, in the order of the list
Picked(list, keep) ==
    [k \in 1..Cardinality(keep) |->
        list[CHOOSE j \in keep : Cardinality({m \in keep : m < j}) = k - 1]]

\* the last call was op and returned
Did(op) == last.op = op /\ ~last.raised

RecordFields == DOMAIN extract_video_info(EmptyDict).value

\* a record with every field extract_video_info writes
Complete(r) == DOMAIN r = RecordFields

WatchPrefix ==
    <<"h", "t", "t", "p", "s", ":", "/", "/", "w", "w", "w", ".", "y", "o", "u", "t">>
        \o <<"u", "b", "e", ".", "c", "o", "m", "/", "w", "a", "t", "c", "h", "?", "v", "=">>

Seconds(r) == IF "duration_seconds" \in DOMAIN r THEN r.duration_seconds ELSE 0

Views(r) == IF "view_count" \in DOMAIN r THEN r.view_count ELSE 0

\* a call of filter_by_views returned the records with at least min_views views
ViewsSelected ==
    Did("filter_by_views") =>
        last.output = Picked(last.input, {j \in DOMAIN last.input :
                                            Views(last.input[j]) >= last.args.min_views})

\* a second call with the same threshold changes nothing
ViewsIdempotent ==
    (/\ Did("filter_by_views")
     /\ last'.op = "filter_by_views"
     /\ last'.args = last.args)
    => last'.output = last.output /\ processed' = processed

\* C17: filter_by_views returns exactly the records with view_count >= threshold in
\* input order, a record without view_count counting as 0, and filtering the result
\* again with the same threshold returns it unchanged.
C17_FilterByViews == []ViewsSelected /\ [][ViewsIdempotent]_vars

\* a threshold of 15000 kept a record with exactly 15000 views and dropped one
\* without view_count
C17_Witness ==
    /\ Did("filter_by_views")
    /\ last.args.min_views = 15000
    /\ \E j \in DOMAIN last.input : "view_count" \notin DOMAIN last.input[j]
    /\ Len(last.output) = 1
    /\ last.output[1].view_count = 15000

\* keyword occurs in title from some position on
Contains(title, keyword) ==
    \E a \in 1..(Len(title) + 1) :
        \A j \in 1..Len(keyword) : a + j - 1 <= Len(title) /\ title[a + j - 1] = keyword[j]

Title(r) == IF "title" \in DOMAIN r THEN r.title ELSE <<>>

\* some keyword occurs in the title, both lowercased unless case_sensitive
Matches(r, keywords, case_sensitive) ==
    \E k \in DOMAIN keywords :
        IF case_sensitive THEN Contains(Title(r), keywords[k])
        ELSE Contains(Lower(Title(r)), Lower(keywords[k]))

TitleSpaceExplorationToday == <<"S", "p", "a", "c", "e", " ", "E", "x", "p", "l", "o", "r", "a", "t", "i", "o", "n", " ", "T", "o", "d", "a", "y">>
TitleSpaceExploration == <<"s", "p", "a", "c", "e", " ", "e", "x", "p", "l", "o", "r", "a", "t", "i", "o", "n">>

\* C18: filter_by_keywords_in_title keeps, in input order, exactly the records whose
\* title contains one of the keywords, title and keywords lowercased unless
\* case_sensitive; each record is decided on its own.  'Space Exploration Today'
\* is kept for ['space'] case-insensitively and for ['Space'] case-sensitively,
\* 'space exploration' is dropped for ['Space'] case-sensitively.
C18_KeywordsInTitle ==
    Did("filter_by_keywords_in_title") =>
        LET keywords == last.args.keywords
            case_sensitive == last.args.case_sensitive
            kept == {j \in DOMAIN last.input : Matches(last.input[j], keywords, case_sensitive)}
        IN /\ last.output = Picked(last.input, kept)
           /\ \A j \in DOMAIN last.input :
                /\ (/\ Title(last.input[j]) = TitleSpaceExplorationToday
                    /\ \/ keywords = <<<<"s", "p", "a", "c", "e">>>> /\ ~case_sensitive
                       \/ keywords = <<<<"S", "p", "a", "c", "e">>>> /\ case_sensitive)
                   => j \in kept
                /\ (/\ Title(last.input[j]) = TitleSpaceExploration
                    /\ keywords = <<<<"S", "p", "a", "c", "e">>>> /\ case_sensitive)
                   => j \notin kept

\* ['Space'] case-sensitively kept 'Space Exploration Today' and dropped the
\* 'space exploration' in front of it
C18_Witness ==
    /\ Did("filter_by_keywords_in_title")
    /\ last.args.keywords = <<<<"S", "p", "a", "c", "e">>>> /\ last.args.case_sensitive
    /\ Len(last.input) = 2
    /\ Title(last.input[1]) = TitleSpaceExploration
    /\ Title(last.input[2]) = TitleSpaceExplorationToday
    /\ last.output = <<last.input[2]>>

\* C19: filter_by_duration returns, in input order, exactly the records with
\* min_seconds <= duration_seconds <= max_seconds, both ends included; a minimum not
\* given is 0 and a maximum not given is no limit, so that with neither given every
\* record is kept (a record of unknown duration has 0 seconds).
C19_FilterByDuration ==
    Did("filter_by_duration") =>
        LET min_seconds == last.args.min_seconds
            max_seconds == last.args.max_seconds
            kept == {j \in DOMAIN last.input :
                        /\ min_seconds.given => min_seconds.value <= Seconds(last.input[j])
                        /\ ~min_seconds.given => 0 <= Seconds(last.input[j])
                        /\ max_seconds.given => Seconds(last.input[j]) <= max_seconds.value}
        IN /\ last.output = Picked(last.input, kept)
           /\ (~min_seconds.given /\ ~max_seconds.given) => last.output = last.input

\* the range 60..253 kept the records of 60 and of 253 seconds and dropped one of 45
C19_Witness ==
    /\ Did("filter_by_duration")
    /\ last.args.min_seconds = Given(60) /\ last.args.max_seconds = Given(253)
    /\ Len(last.input) = 3
    /\ {Seconds(last.input[j]) : j \in DOMAIN last.input} = {45, 60, 253}
    /\ Len(last.output) = 2

\* C20: filter_by_video_type returns, in input order, exactly the records whose
\* video_type is in the list of types; with an empty list of types it returns nothing.
C20_FilterByVideoType ==
    Did("filter_by_video_type") =>
        LET video_types == last.args.video_types
            allowed == {video_types[k] : k \in DOMAIN video_types}
            kept == {j \in DOMAIN last.input :
                        "video_type" \in DOMAIN last.input[j]
                            /\ last.input[j].video_type \in allowed}
        IN /\ last.output = Picked(last.input, kept)
           /\ video_types = <<>> => last.output = <<>>

\* an empty list of types emptied a list of three records
C20_Witness ==
    /\ Did("filter_by_video_type")
    /\ last.args.video_types = <<>>
    /\ Len(last.input) = 3
    /\ last.output = <<>>

\* the positions of the records marked as Shorts
ShortsAt(list) == {j \in DOMAIN list : "is_short" \in DOMAIN list[j] /\ list[j].is_short}

\* C21: filter_shorts_only returns exactly the records with is_short true and
\* filter_regular_videos_only exactly the other records, both in input order, so
\* that every record of the input is in exactly one of the two results.
C21_ShortsPartition ==
    /\ Did("filter_shorts_only") =>
        last.output = Picked(last.input, ShortsAt(last.input))
    /\ Did("filter_regular_videos_only") =>
        last.output = Picked(last.input, DOMAIN last.input \ ShortsAt(last.input))

\* filter_regular_videos_only dropped the one Short of three records and kept a
\* record without is_short
C21_Witness ==
    /\ Did("filter_regular_videos_only")
    /\ Len(last.input) = 3
    /\ Cardinality(ShortsAt(last.input)) = 1
    /\ \E j \in DOMAIN last.input : "is_short" \notin DOMAIN last.input[j]
    /\ Len(last.output) = 2

\* output is input rearranged by p so that the keys are in order, records of equal
\* key in the order they had in input
Arranges(p, input, output, sort_by, descending) ==
    /\ \A k \in DOMAIN input : output[k] = input[p[k]]
    /\ \A j, k \in DOMAIN output :
        j < k =>
            LET a == SortKey(output[j], sort_by)
                b == SortKey(output[k], sort_by)
            IN /\ descending => ~KeyLess(a, b)
               /\ ~descending => ~KeyLess(b, a)
               /\ a = b => p[j] < p[k]

\* C22: sort_videos returns a permutation of its input ordered by the key field,
\* non-increasing when descending and non-decreasing otherwise, in which records of
\* equal key keep their input order, in both directions.
C22_StableSort ==
    Did("sort_videos") =>
        /\ Len(last.output) = Len(last.input)
        /\ \E p \in Permutations(DOMAIN last.input) :
            Arranges(p, last.input, last.output, last.args.sort_by, last.args.descending)

\* a descending sort by view_count moved two different records of equal count in
\* front of a record of lower count and kept their order
C22_Witness ==
    /\ Did("sort_videos")
    /\ last.args.sort_by = "view_count" /\ last.args.descending
    /\ Len(last.input) = 3
    /\ last.input[2] # last.input[3]
    /\ Views(last.input[2]) = Views(last.input[3])
    /\ Views(last.input[1]) < Views(last.input[2])
    /\ last.output = <<last.input[2], last.input[3], last.input[1]>>

\* C23: sort_videos never raises on a sort field that is unknown or that only some
\* records have: a sort by a field no record has returns the input order, and any
\* other sort returns a sorted permutation of the input.
C23_SortNeverRaises ==
    last.op = "sort_videos" =>
        /\ ~last.raised
        /\ (\A j \in DOMAIN last.input : last.args.sort_by \notin DOMAIN last.input[j])
            => last.output = last.input
        /\ Len(last.output) = Len(last.input)

-----------------------------------------------------------------------------
(* DataProcessor.process_video_batch *)

\* filter_keywords=None
NoKeywords == [given |-> FALSE, value |-> <<>>]

process_video_batch_Mutant(raw, min_views, filter_keywords) ==
    LET extracted == [k \in 1..Len(raw) |-> extract_video_info(raw[k])]
        video_data == [k \in 1..Len(raw) |-> extracted[k].value]
        by_views == filter_by_views(video_data, min_views)
        by_keywords == IF filter_keywords.given /\ filter_keywords.value # <<>>
                       THEN filter_by_keywords_in_title(by_views, filter_keywords.value, FALSE)
                       ELSE by_views
    IN IF \E k \in 1..Len(raw) : extracted[k].raised
       THEN [raised |-> TRUE, value |-> <<>>]
       ELSE sort_videos(by_keywords, "view_count", FALSE)
\* lines 326-341: normalize every item, filter by views, filter by keywords when the
\* list is neither None nor empty, sort by view_count with the defaults of sort_videos
process_video_batch(raw, min_views, filter_keywords) ==
    LET extracted == [k \in 1..Len(raw) |-> extract_video_info(raw[k])]
        video_data == [k \in 1..Len(raw) |-> extracted[k].value]
        by_views == filter_by_views(video_data, min_views)
        by_keywords == IF filter_keywords.given /\ filter_keywords.value # <<>>
                       THEN filter_by_keywords_in_title(by_views, filter_keywords.value, FALSE)
                       ELSE by_views
    IN IF \E k \in 1..Len(raw) : extracted[k].raised
       THEN [raised |-> TRUE, value |-> <<>>]
       ELSE sort_videos(by_keywords, "view_count", TRUE)

\* the raw items of a batch: three with different view counts and one with a view
\* count that is not a number
BatchItems ==
    { RawVideo(<<"v", "1">>, <<"S", "p", "a", "c", "e", " ", "E", "x", "p", "l", "o", "r", "a", "t", "i", "o", "n", " ", "T", "o", "d", "a", "y">>, <<"2", "0", "0", "0", "0">>, <<"P", "T", "4", "5", "S">>),
      RawVideo(<<"v", "2">>, <<"s", "p", "a", "c", "e", " ", "e", "x", "p", "l", "o", "r", "a", "t", "i", "o", "n">>, <<"5", "0", "0", "0">>, <<"P", "T", "4", "M", "1", "3", "S">>),
      RawVideo(<<"v", "3">>, <<"N", "A", "S", "A", " ", "n", "e", "w", "s">>, <<"1", "5", "0", "0", "0">>, <<"P", "T", "1", "H", "2", "M", "1", "0", "S">>),
      RawVideo(<<"v", "6">>, <<"N", "A", "S", "A", " ", "n", "e", "w", "s">>, <<"a", "b", "c">>, <<"P", "T", "4", "5", "S">>) }

KeywordArguments == {NoKeywords, Given(<<>>)} \cup {Given(keywords) : keywords \in KeywordLists}

InitBatch ==
    /\ HandlerIdle
    /\ CodecIdle
    /\ QuotaIdle
    /\ DurationIdle
    /\ FiltersIdle
    /\ video = [id |-> None]
    /\ info = [video_id |-> None]
    /\ xpc = "idle"
    /\ raw_videos \in ListsUpTo(BatchItems, MaxLen)

\* one call of process_video_batch on raw_videos
ProcessVideoBatch ==
    /\ \E min_views \in ViewThresholds, filter_keywords \in KeywordArguments :
        LET outcome == process_video_batch(raw_videos, min_views, filter_keywords)
        IN /\ last' = [op |-> "process_video_batch",
                       args |-> [min_views |-> min_views, filter_keywords |-> filter_keywords],
                       input |-> raw_videos,
                       raised |-> outcome.raised, output |-> outcome.value]
           /\ processed' = IF outcome.raised THEN processed ELSE outcome.value
    /\ UNCHANGED <<handlerVars, codecVars, quotaVars, durationVars, normalizerVars>>

NextBatch == ProcessVideoBatch

SpecBatch == InitBatch /\ [][NextBatch]_vars

\* the view counts of a list of records
ViewCounts(list) == [k \in DOMAIN list |-> Views(list[k])]

\* C24: process_video_batch returns the normalized items that have at least min_views
\* views and, when keywords were supplied, a keyword in the title (compared without
\* case), sorted by view_count in non-increasing order, equal counts in input order;
\* nothing else is removed.  Items with 5000, 20000 and 15000 views, min_views 10000
\* and no keywords give the records with 20000 and 15000 views, in this order.
C24_BatchPipeline ==
    Did("process_video_batch") =>
        LET video_data == [k \in DOMAIN last.input |-> extract_video_info(last.input[k]).value]
            filter_keywords == last.args.filter_keywords
            supplied == filter_keywords.given /\ Len(filter_keywords.value) > 0
            kept == {j \in DOMAIN video_data :
                        /\ Views(video_data[j]) >= last.args.min_views
                        /\ supplied => Matches(video_data[j], filter_keywords.value, FALSE)}
            selected == Picked(video_data, kept)
        IN /\ Len(last.output) = Len(selected)
           /\ \E p \in Permutations(DOMAIN selected) :
                Arranges(p, selected, last.output, "view_count", TRUE)
           /\ \A k \in DOMAIN last.output : last.output[k].view_count >= last.args.min_views
           /\ \A k \in DOMAIN last.output :
                k > 1 => last.output[k - 1].view_count >= last.output[k].view_count
           /\ (/\ ViewCounts(video_data) = <<5000, 20000, 15000>>
               /\ last.args.min_views = 10000
               /\ ~filter_keywords.given)
              => ViewCounts(last.output) = <<20000, 15000>>

\* the batch of the scenario was processed
C24_Witness ==
    /\ Did("process_video_batch")
    /\ Len(raw_videos) = 3
    /\ last.args.min_views = 10000
    /\ last.args.filter_keywords = NoKeywords
    /\ ViewCounts(processed) = <<20000, 15000>>
    /\ processed = <<extract_video_info(raw_videos[2]).value,
                     extract_video_info(raw_videos[3]).value>>

-----------------------------------------------------------------------------
(* Further properties of SearchHandler and of the filters *)

\* C25: search_videos_with_keywords called with a negative max_total_results ends
\* with an exception and without a page fetch.
C25_NegativeTargetFailsFast ==
    (SearchReturned /\ max_total_results < 0) => (raised /\ search_calls = <<>>)

FilterNames == {"filter_by_views", "filter_by_keywords_in_title", "filter_by_duration",
                "filter_by_video_type", "filter_shorts_only", "filter_regular_videos_only"}

-----------------------------------------------------------------------------
(* The loop of search_videos_with_keywords against a collaborator that is   *)
(* free to answer every call with any page and any token; the calls are not *)
(* recorded, so that a run of any length is explored.                       *)

\* lines 48-71: one iteration whose search_videos call returns a page
LoopFetchPage ==
    /\ pc = "search_loop"
    /\ LoopCond(all_videos, max_total_results)
    /\ \E n \in PageCounts(RequestedPageSize(all_videos, max_total_results)),
          token \in Tokens(1) :
        LET videos == PageItems(Len(all_videos) + 1, n)
            extended == Extend(all_videos, videos)
        IN /\ all_videos' = extended
           /\ next_page_token' = token
           /\ IF ~Truthy(token)
              THEN SearchReturn(extended)
              ELSE /\ pc' = "search_sleep"
                   /\ UNCHANGED <<search_results, result, raised, last_op>>
    /\ UNCHANGED <<video_details, ops, max_total_results, query, order, published_after,
                   published_before, statsLocals, search_calls, search_resps,
                   detail_calls, detail_resps, log, codecVars, processorVars>>

\* lines 48-58, 73-75: one iteration whose search_videos call raises
LoopFetchFail ==
    /\ pc = "search_loop"
    /\ LoopCond(all_videos, max_total_results)
    /\ SearchReturn(all_videos)
    /\ UNCHANGED <<video_details, ops, searchLocals, statsLocals, search_calls, search_resps,
                   detail_calls, detail_resps, log, codecVars, processorVars>>

\* line 71: time.sleep(0.5), then back to the loop condition
LoopSleep ==
    /\ pc = "search_sleep"
    /\ pc' = "search_loop"
    /\ UNCHANGED <<search_results, video_details, last_op, result, raised, ops,
                   searchLocals, statsLocals, search_calls, search_resps,
                   detail_calls, detail_resps, log, codecVars, processorVars>>

NextLoop ==
    \/ StartSearch
    \/ SearchLoopExit
    \/ LoopFetchPage
    \/ LoopFetchFail
    \/ LoopSleep

\* the interpreter always executes the next statement of a running method
SpecLoop == Init /\ [][NextLoop]_vars /\ WF_vars(NextLoop)

\* C27: every call of search_videos_with_keywords returns, whatever the collaborator
\* answers.
C27_SearchTerminates == (pc # "idle") ~> (pc = "idle")

\* C28: when a SearchHandler method has returned, the attribute it maintains holds the
\* list it returned: search_results after search_videos_with_keywords, video_details
\* after fetch_video_statistics, also when fetch_video_statistics returns an empty
\* list because it was given nothing to fetch.
C28_AttributesHoldLastResult ==
    /\ SearchReturned => search_results = result
    /\ StatsReturned => video_details = result

\* sort_videos(videos) with its defaults, as process_video_batch calls it
SortedByViews(videos) == sort_videos(videos, "view_count", TRUE).value

\* C29: filtering before or after the sort by view count gives the same list, for
\* filter_by_views and for filter_by_keywords_in_title, and the two filters commute.
C29_FilterSortCommute ==
    /\ (/\ Did("sort_videos")
        /\ last.args.sort_by = "view_count" /\ last.args.descending)
       => /\ \A t \in ViewThresholds :
                filter_by_views(last.output, t) = SortedByViews(filter_by_views(last.input, t))
          /\ \A keywords \in KeywordLists, case_sensitive \in BOOLEAN :
                filter_by_keywords_in_title(last.output, keywords, case_sensitive)
                    = SortedByViews(filter_by_keywords_in_title(last.input, keywords,
                                                                case_sensitive))
    /\ Did("filter_by_views")
       => /\ SortedByViews(last.output)
                = filter_by_views(SortedByViews(last.input), last.args.min_views)
          /\ \A keywords \in KeywordLists, case_sensitive \in BOOLEAN :
                filter_by_keywords_in_title(last.output, keywords, case_sensitive)
                    = filter_by_views(filter_by_keywords_in_title(last.input, keywords,
                                                                  case_sensitive),
                                      last.args.min_views)
    /\ Did("filter_by_keywords_in_title")
       => SortedByViews(last.output)
            = filter_by_keywords_in_title(SortedByViews(last.input), last.args.keywords,
                                          last.args.case_sensitive)

\* the default sort reordered three records of which a threshold keeps two
C29_Witness ==
    /\ Did("sort_videos")
    /\ last.args.sort_by = "view_count" /\ last.args.descending
    /\ Len(last.input) = 3
    /\ last.output # last.input
    /\ \E t \in ViewThresholds :
        /\ Len(filter_by_views(last.output, t)) = 2
        /\ filter_by_views(last.input, t) # filter_by_views(last.output, t)

-----------------------------------------------------------------------------
(* ConfigHandler: the quota tracker (title-search variant) *)

MaxUses == 4         \* use_quota calls explored

DailyQuotaLimit == 10000

\* the operations main records and their units, and one as large as the daily limit
QuotaOperations ==
    { [operation |-> "search", units |-> 100],
      [operation |-> "videos_list", units |-> 1],
      [operation |-> "bulk", units |-> DailyQuotaLimit] }

RequiredUnits == {1, 100}

\* lines 98-99: (remaining >= required_units, remaining)
check_quota_availability(usage, required_units) ==
    LET remaining == DailyQuotaLimit - usage.used
    IN [is_available |-> remaining >= required_units, remaining |-> remaining]

\* lines 109-114: quota_usage after use_quota
use_quota_Mutant(usage, units, operation) ==
    [used |-> units,
     operations |-> Append(usage.operations, [operation |-> operation, units |-> units])]
use_quota(usage, units, operation) ==
    [used |-> usage.used + units,
     operations |-> Append(usage.operations, [operation |-> operation, units |-> units])]

InitQuota ==
    /\ HandlerIdle
    /\ CodecIdle
    /\ DurationIdle
    /\ NormalizerIdle
    /\ FiltersIdle
    /\ QuotaIdle

CheckQuotaAvailability ==
    /\ \E required_units \in RequiredUnits :
        quota_last' = [op |-> "check_quota_availability", units |-> required_units,
                       returned |-> check_quota_availability(quota_usage, required_units)]
    /\ UNCHANGED <<handlerVars, codecVars, durationVars, normalizerVars, filterVars,
                   quota_usage>>

UseQuota ==
    /\ Len(quota_usage.operations) < MaxUses
    /\ \E call \in QuotaOperations :
        /\ quota_usage' = use_quota(quota_usage, call.units, call.operation)
        /\ quota_last' = [op |-> "use_quota", units |-> call.units]
    /\ UNCHANGED <<handlerVars, codecVars, durationVars, normalizerVars, filterVars>>

NextQuota == CheckQuotaAvailability \/ UseQuota

SpecQuota == InitQuota /\ [][NextQuota]_vars

\* the units of the recorded operations added up
RECURSIVE UnitsOf(_)
UnitsOf(operations) ==
    IF operations = <<>> THEN 0
    ELSE operations[Len(operations)].units + UnitsOf(SubSeq(operations, 1, Len(operations) - 1))

\* used is the sum of the recorded units
UsedIsSum == quota_usage.used = UnitsOf(quota_usage.operations)

\* use_quota adds its units and one entry, check_quota_availability changes nothing
QuotaStep ==
    /\ quota_last'.op = "use_quota" =>
        /\ quota_usage'.used = quota_usage.used + quota_last'.units
        /\ Len(quota_usage'.operations) = Len(quota_usage.operations) + 1
        /\ SubSeq(quota_usage'.operations, 1, Len(quota_usage.operations))
            = quota_usage.operations
        /\ quota_usage'.operations[Len(quota_usage'.operations)].units = quota_last'.units
    /\ quota_last'.op = "check_quota_availability" => quota_usage' = quota_usage

\* C30: from the reset state, after any calls of use_quota and
\* check_quota_availability, used is the sum of the units of the recorded operations;
\* use_quota(u) adds exactly u to used and exactly one entry, and
\* check_quota_availability changes nothing.
C30_UsedIsSumOfOperations == []UsedIsSum /\ [][QuotaStep]_vars

\* three operations were recorded, the last one followed by a check that found the
\* quota exhausted
C30_Witness ==
    /\ Len(quota_usage.operations) = 3
    /\ quota_usage.used = DailyQuotaLimit + 101
    /\ quota_last.op = "check_quota_availability"
    /\ ~quota_last.returned.is_available

====
